---- MODULE Spec2Model ----
(***************************************************************************)
(* A model of scripts/modelsim_controller.py: the ModelSimController that  *)
(* launches the ModelSim GUI, holds a socket client and forwards commands  *)
(* to it.  The controller is single threaded: one operation runs at a      *)
(* time (pc), and the variables below pc..sinceDisc record what the        *)
(* running operation has done so far.  The command line of                 *)
(* scripts/start_modelsim.py and ModelSimRunner.simulate of                *)
(* scripts/modelsim_runner.py are modelled on the same variables, each     *)
(* under a specification of its own.                                       *)
(***************************************************************************)
EXTENDS Integers, Sequences, FiniteSets, TLC

VARIABLES
    client,          \* self.client: absent (None) or a ModelSimClient
    design_files,    \* self.design_files
    testbench_file,  \* self.testbench_file (Optional[Path])
    top_module,      \* self.top_module
    transcript,      \* the file <project_root>/sim/transcript
    pc,              \* where the running operation stands; "idle" between calls
    op,              \* the operation called last, with its arguments
    ret,             \* what the operation returned (NoRet while it runs)
    calls,           \* the client calls of this operation, each with its response
    created,         \* ModelSimClient objects constructed by this operation
    fwd,             \* the arguments client.connect was called with
    attempts,        \* connection attempts of the running client.connect
    waits,           \* the delays client.connect slept, in order
    results,         \* the local `results` of quick_recompile_and_run
    launched,        \* this start_gui_with_server got a process from the runner
    effects,         \* the window searches and image files of this operation
    lastStart,       \* arguments of the latest start_gui_with_server call
    sinceDisc        \* disconnect returned and no connect/start_gui was called since

vars == <<client, design_files, testbench_file, top_module, transcript, pc, op,
          ret, calls, created, fwd, attempts, waits, results, launched,
          effects, lastStart, sinceDisc>>

----------------------------------------------------------------------------
(* Bounds of the model *)

\* connect is called with max_retries in 0..MaxRetriesArg
MaxRetriesArg == 2
\* start_gui_with_server is called with at most MaxFiles design files
MaxFiles == 1
\* the simulator writes at most the first MaxLines lines of SimulatorOutput
MaxLines == 2

(* Program constants *)

\* connect(max_retries=10, retry_delay=1.0)
DefaultMaxRetries == 10
DefaultRetryDelay == 1

----------------------------------------------------------------------------
(* Values *)

NoneArg == [given |-> FALSE]
Some(v) == [given |-> TRUE, val |-> v]

\* a pathlib.Path: a drive ("" when relative) and its components
MkPath(d, p) == [drive |-> d, parts |-> p]
F_rel == MkPath("", <<"hdl", "a.v">>)
F_in  == MkPath("C:", <<"proj", "hdl", "tb.v">>)
F_out == MkPath("D:", <<"lib", "b.v">>)
Files == {F_rel, F_out}
TestbenchFiles == {F_in}

RECURSIVE SeqsUpTo(_, _)
SeqsUpTo(S, n) ==
    IF n = 0 THEN {<<>>}
    ELSE LET shorter == SeqsUpTo(S, n - 1)
         IN  shorter \cup {Append(s, x) : s \in shorter, x \in S}

DesignLists == SeqsUpTo(Files, MaxFiles)

\* file arguments of quick_recompile_and_run and recompile: None, or a list
ArgDesign == {NoneArg, Some(<<>>), Some(<<F_in>>)}
ArgTestbench == {NoneArg, Some(F_out)}

Modules == {"counter_tb"}
Times == {"1us"}
ZoomRanges == {NoneArg, Some(<<"1ms", "2ms">>)}
RetryDelays == {DefaultRetryDelay, 2}
RetryCounts == 0 .. MaxRetriesArg

SignalPaths == {<<"/", "counter_tb", "/", "count">>, <<"Pulse">>}
Formats == {"hex"}
LineCounts == {NoneArg, Some(0), Some(1), Some(100)}

\* the lines the simulator writes: the text, its length, the markers the code
\* looks for that it contains (those of check_for_errors in lower case), and
\* for a "[<t> ns] ..." message the time and the words that follow it
L_err   == [text |-> "** Error: (vlog-13069) a.v(3): syntax error", width |-> 43,
            has |-> {"** error", "error:"}, ns |-> NoneArg, after |-> {}]
L_pass  == [text |-> "# TEST_RESULT: PASS", width |-> 19,
            has |-> {"TEST_RESULT:", "PASS"}, ns |-> NoneArg, after |-> {}]
L_pulse == [text |-> "# [1005500000 ns] Pulse #1 detected", width |-> 35,
            has |-> {}, ns |-> Some(1005500000), after |-> {"pulse"}]
L_plain == [text |-> "# Loading work.counter_tb", width |-> 25,
            has |-> {}, ns |-> NoneArg, after |-> {}]
\* what the simulator writes to its transcript, in this order
SimulatorOutput == <<L_pulse, L_pass, L_err, L_plain>>
NextLine(n) == SimulatorOutput[((n - 1) % Len(SimulatorOutput)) + 1]
\* transcript contents handed to the analysis methods as an argument
ArgTranscript == {NoneArg, Some(<<L_pass, L_pulse, L_err>>)}

\* the responses of the socket server
EmptyMap == [k \in {} |-> TRUE]
RespOk   == [success |-> TRUE, message |-> "OK", output |-> "",
             errors |-> <<>>, warnings |-> <<>>]
RespErr  == [success |-> FALSE, message |-> "Command failed", output |-> "",
             errors |-> <<"** Error: (vlog-13069) a.v(3): syntax error">>,
             warnings |-> <<>>]
RespTimeout == [success |-> FALSE, message |-> "Timeout", output |-> "",
                errors |-> <<>>, warnings |-> <<>>]
Responses == {RespOk, RespErr, RespTimeout}

\* return values
NoRet == [kind |-> "none"]
RetBool(b) == [kind |-> "bool", val |-> b]
RetMap(m) == [kind |-> "map", val |-> m]
RetNone == [kind |-> "None"]
RetRaise(e) == [kind |-> "raise", val |-> e]

----------------------------------------------------------------------------
(* The controller's fields *)

NoClient == [present |-> FALSE]
\* ModelSimClient(port=self.server_port): a client that is not connected yet
NewClient == [present |-> TRUE, connected |-> FALSE]

\* faulty variant, for sensitivity of the properties: a client object is taken to be a connected one
is_connected_AnyClient == client.present

\* self.client is not None and self.client.is_connected()
is_connected == client.present /\ client.connected

NoFwd == [given |-> FALSE]
EmptyResults == EmptyMap

\* the fields an operation leaves alone unless it says otherwise
Stored == <<design_files, testbench_file, top_module, lastStart>>

Init ==
    /\ client = NoClient
    /\ design_files = <<>>
    /\ testbench_file = NoneArg
    /\ top_module = ""
    /\ transcript = [exists |-> FALSE, lines |-> <<>>]
    /\ pc = "idle"
    /\ op = [name |-> "__init__"]
    /\ ret = RetNone
    /\ calls = <<>>
    /\ created = 0
    /\ fwd = NoFwd
    /\ attempts = 0
    /\ waits = <<>>
    /\ results = EmptyResults
    /\ launched = FALSE
    /\ effects = <<>>
    /\ lastStart = NoneArg
    /\ sinceDisc = FALSE

\* every call starts from "idle": no operation runs inside another's
Enter(o) ==
    /\ pc = "idle"
    /\ op' = o

\* a call of an operation that searches no window and writes no image
Call(o) ==
    /\ Enter(o)
    /\ effects' = <<>>

\* what a call that connects to nothing and launches nothing records
NoConnect == created' = 0 /\ fwd' = NoFwd /\ attempts' = 0 /\ waits' = <<>>
NoLaunch == launched' = FALSE /\ results' = EmptyResults
Plain == NoConnect /\ NoLaunch /\ UNCHANGED <<Stored, transcript, sinceDisc>>
Return(r) == ret' = r /\ pc' = "idle"

\* one call of a client method that sends `cmd` and gets `resp` back
Sent(cmd, resp) == [cmd |-> cmd, resp |-> resp]

----------------------------------------------------------------------------
(* ModelSimClient.connect: the retry loop of the socket client *)

\* client.connect(max_retries, retry_delay) is entered: no attempt with no retries
ClientConnectBegin ==
    /\ attempts' = 0
    /\ waits' = <<>>
    /\ IF fwd'.max_retries <= 0
       THEN Return(RetBool(FALSE))
       ELSE ret' = NoRet /\ pc' = "connecting"

\* one pass of the loop: an attempt, then the delay when another attempt follows
ClientConnectAttempt ==
    /\ pc = "connecting"
    /\ attempts' = attempts + 1
    /\ \E accepted \in BOOLEAN :
          IF accepted
          THEN /\ client' = [client EXCEPT !.connected = TRUE]
               /\ waits' = waits
               /\ Return(RetBool(TRUE))
          ELSE IF attempts + 1 < fwd.max_retries
          THEN /\ waits' = Append(waits, fwd.retry_delay)
               /\ UNCHANGED <<client, ret, pc>>
          ELSE /\ Return(RetBool(FALSE))
               /\ UNCHANGED <<client, waits>>
    /\ UNCHANGED <<design_files, testbench_file, top_module, transcript, op,
                   calls, created, fwd, results, launched, effects,
                   lastStart, sinceDisc>>

----------------------------------------------------------------------------
(* ModelSimController: launching and connecting *)

\* faulty variant, for sensitivity of the properties: connect calls client.connect() and drops its own arguments
ConnectArgsDropped(max_retries, retry_delay) ==
    [given |-> TRUE, max_retries |-> DefaultMaxRetries,
     retry_delay |-> DefaultRetryDelay]

\* the arguments connect hands to client.connect
ConnectArgs(max_retries, retry_delay) ==
    [given |-> TRUE, max_retries |-> max_retries, retry_delay |-> retry_delay]

\* faulty variant, for sensitivity of the properties: connect without the check for an existing connection
ConnectBodyUnchecked(max_retries, retry_delay) ==
    /\ client' = NewClient
    /\ created' = 1
    /\ fwd' = [given |-> TRUE, max_retries |-> max_retries,
               retry_delay |-> retry_delay]
    /\ ClientConnectBegin

\* the body of connect(max_retries, retry_delay)
ConnectBody(max_retries, retry_delay) ==
    IF is_connected
    THEN /\ UNCHANGED client
         /\ NoConnect
         /\ Return(RetBool(TRUE))
    ELSE /\ client' = NewClient
         /\ created' = 1
         /\ fwd' = ConnectArgs(max_retries, retry_delay)
         /\ ClientConnectBegin

connect(max_retries, retry_delay) ==
    /\ Call([name |-> "connect", max_retries |-> max_retries,
             retry_delay |-> retry_delay])
    /\ ConnectBody(max_retries, retry_delay)
    /\ calls' = <<>>
    /\ NoLaunch
    /\ sinceDisc' = FALSE
    /\ UNCHANGED <<design_files, testbench_file, top_module, transcript,
                   lastStart>>

\* gui_runner.run_simulation_gui_with_server: a process, None when Popen
\* fails, or the exception of writing the TCL script
LaunchOutcomes == {"process", "None", "raise"}

start_gui_with_server(D, T, M, auto_connect, launch) ==
    /\ Call([name |-> "start_gui_with_server", design_files |-> D,
             testbench_file |-> T, top_module |-> M,
             auto_connect |-> auto_connect, launch |-> launch])
    /\ design_files' = D
    /\ testbench_file' = Some(T)
    /\ top_module' = M
    /\ lastStart' = Some([design_files |-> D, testbench_file |-> T,
                          top_module |-> M])
    /\ launched' = (launch = "process")
    /\ IF launch = "raise"
       THEN UNCHANGED client /\ NoConnect /\ Return(RetRaise("OSError"))
       ELSE IF launch = "None"
       THEN UNCHANGED client /\ NoConnect /\ Return(RetBool(FALSE))
       ELSE IF auto_connect
       THEN ConnectBody(DefaultMaxRetries, DefaultRetryDelay)
       ELSE UNCHANGED client /\ NoConnect /\ Return(RetBool(TRUE))
    /\ calls' = <<>>
    /\ results' = EmptyResults
    /\ sinceDisc' = FALSE
    /\ UNCHANGED transcript

\* faulty variant, for sensitivity of the properties: the client is disconnected but kept in self.client
disconnectKeepsClient ==
    /\ Call([name |-> "disconnect"])
    /\ IF client.present
       THEN /\ calls' = <<Sent([name |-> "disconnect"], EmptyMap)>>
            /\ client' = [client EXCEPT !.connected = FALSE]
       ELSE /\ calls' = <<>>
            /\ UNCHANGED client
    /\ Return(RetNone)
    /\ NoConnect
    /\ NoLaunch
    /\ sinceDisc' = TRUE
    /\ UNCHANGED <<design_files, testbench_file, top_module, transcript,
                   lastStart>>

disconnect ==
    /\ Call([name |-> "disconnect"])
    /\ IF client.present
       THEN /\ calls' = <<Sent([name |-> "disconnect"], EmptyMap)>>
            /\ client' = NoClient
       ELSE /\ calls' = <<>>
            /\ UNCHANGED client
    /\ Return(RetNone)
    /\ NoConnect
    /\ NoLaunch
    /\ sinceDisc' = TRUE
    /\ UNCHANGED <<design_files, testbench_file, top_module, transcript,
                   lastStart>>

ping ==
    /\ Call([name |-> "ping"])
    /\ IF ~is_connected
       THEN calls' = <<>> /\ Return(RetBool(FALSE))
       ELSE \E b \in BOOLEAN :
              /\ calls' = <<Sent([name |-> "ping"], [value |-> b])>>
              /\ Return(RetBool(b))
    /\ NoConnect
    /\ NoLaunch
    /\ UNCHANGED <<client, design_files, testbench_file, top_module,
                   transcript, lastStart, sinceDisc>>

----------------------------------------------------------------------------
(* Paths as the strings str() gives on Windows: sequences of tokens *)

ProjectRoot == MkPath("C:", <<"proj">>)

RECURSIVE JoinParts(_)
JoinParts(parts) ==
    IF Len(parts) <= 1 THEN parts
    ELSE <<parts[1], "\\">> \o JoinParts(Tail(parts))

\* str(path)
StrPath(f) ==
    IF f.drive = "" THEN JoinParts(f.parts)
    ELSE <<f.drive, "\\">> \o JoinParts(f.parts)

is_absolute(f) == f.drive # ""

\* path.relative_to(root) does not raise ValueError
IsUnder(f, root) ==
    /\ f.drive = root.drive
    /\ Len(f.parts) >= Len(root.parts)
    /\ SubSeq(f.parts, 1, Len(root.parts)) = root.parts

relative_to(f, root) ==
    MkPath("", SubSeq(f.parts, Len(root.parts) + 1, Len(f.parts)))

\* faulty variant, for sensitivity of the properties: only the first backslash is replaced
ReplaceFirstBackslash(s) ==
    [i \in 1 .. Len(s) |->
        IF s[i] = "\\" /\ \A j \in 1 .. i - 1 : s[j] # "\\" THEN "/" ELSE s[i]]

\* s.replace("\\", "/")
ReplaceBackslash(s) ==
    [i \in 1 .. Len(s) |-> IF s[i] = "\\" THEN "/" ELSE s[i]]

\* the string recompile sends for one file
ToSimPath(f) ==
    IF is_absolute(f)
    THEN IF IsUnder(f, ProjectRoot)
         THEN <<"../">> \o ReplaceBackslash(StrPath(relative_to(f, ProjectRoot)))
         ELSE ReplaceBackslash(StrPath(f))
    ELSE <<"../">> \o ReplaceBackslash(StrPath(f))

----------------------------------------------------------------------------
(* ModelSimController: single commands *)

NotConnected == [success |-> FALSE, message |-> "Not connected"]

RecompileNotConnected ==
    [success |-> FALSE, message |-> "Not connected to ModelSim server",
     output |-> "", errors |-> <<"Not connected">>, warnings |-> <<>>]

\* faulty variant, for sensitivity of the properties: the stored value wins over the argument
OrStoredAlways(arg, stored) == stored

\* `given if given is not None else stored`
OrStored(arg, stored) == IF arg.given THEN arg.val ELSE stored

\* the optional testbench as recompile sees it: an argument is a path
TestbenchOr(arg) == IF arg.given THEN Some(arg.val) ELSE testbench_file

\* faulty variant, for sensitivity of the properties: the response is rebuilt from its success flag alone
ForwardRebuilt(cmd) ==
    \E r \in Responses :
        /\ calls' = <<Sent(cmd, r)>>
        /\ Return(RetMap([success |-> r.success, message |-> "Command failed"]))

\* what an operation that returns client.<method>(...) does once connected:
\* one call, and the client's response is the result
Forward(cmd) ==
    \E r \in Responses :
        /\ calls' = <<Sent(cmd, r)>>
        /\ Return(RetMap(r))

Refuse(result) == calls' = <<>> /\ Return(RetMap(result))

recompile(files, tb) ==
    /\ Call([name |-> "recompile", design_files |-> files,
             testbench_file |-> tb])
    /\ IF ~is_connected
       THEN Refuse(RecompileNotConnected)
       ELSE LET df == OrStored(files, design_files)
                t  == TestbenchOr(tb)
            IN  Forward([name |-> "recompile",
                         design_files |->
                             [i \in 1 .. Len(df) |-> ToSimPath(df[i])],
                         testbench_file |->
                             IF t.given THEN ToSimPath(t.val) ELSE <<>>])
    /\ Plain
    /\ UNCHANGED client

restart ==
    /\ Call([name |-> "restart"])
    /\ IF ~is_connected
       THEN Refuse(NotConnected)
       ELSE Forward([name |-> "restart_simulation"])
    /\ Plain
    /\ UNCHANGED client

run(time) ==
    /\ Call([name |-> "run", time |-> time])
    /\ IF ~is_connected
       THEN Refuse(NotConnected)
       ELSE Forward([name |-> "run_simulation", time |-> time])
    /\ Plain
    /\ UNCHANGED client

refresh_waveform ==
    /\ Call([name |-> "refresh_waveform"])
    /\ IF ~is_connected
       THEN Refuse(NotConnected)
       ELSE Forward([name |-> "refresh_waveform"])
    /\ Plain
    /\ UNCHANGED client

\* self.execute_tcl(tcl_code): the client calls it makes and what it returns
ExecuteTcl(tcl_code) ==
    IF ~is_connected
    THEN {[sent |-> <<>>, result |-> NotConnected]}
    ELSE {[sent |-> <<Sent([name |-> "execute_tcl", tcl_code |-> tcl_code], r)>>,
           result |-> r] : r \in Responses}

\* an operation that returns self.execute_tcl(tcl_code)
ReturnTcl(tcl_code) ==
    \E x \in ExecuteTcl(tcl_code) :
        /\ calls' = x.sent
        /\ Return(RetMap(x.result))

execute_tcl(tcl_code) ==
    /\ Call([name |-> "execute_tcl", tcl_code |-> tcl_code])
    /\ ReturnTcl(tcl_code)
    /\ Plain
    /\ UNCHANGED client

zoom_waveform_range(start_time, end_time) ==
    /\ Call([name |-> "zoom_waveform_range", start_time |-> start_time,
             end_time |-> end_time])
    /\ IF ~is_connected
       THEN Refuse(NotConnected)
       ELSE ReturnTcl(<<"wave zoom range ", start_time, " ", end_time>>)
    /\ Plain
    /\ UNCHANGED client

zoom_waveform_full ==
    /\ Call([name |-> "zoom_waveform_full"])
    /\ IF ~is_connected
       THEN Refuse(NotConnected)
       ELSE ReturnTcl(<<"wave zoom full">>)
    /\ Plain
    /\ UNCHANGED client

add_wave(signal_path) ==
    /\ Call([name |-> "add_wave", signal_path |-> signal_path])
    /\ IF ~is_connected
       THEN Refuse(NotConnected)
       ELSE ReturnTcl(IF signal_path.given
                      THEN <<"add wave ">> \o signal_path.val
                      ELSE <<"add wave /*">>)
    /\ Plain
    /\ UNCHANGED client

\* signal_path.split('/')[-1]: what follows the last "/"
RECURSIVE LastComponent(_)
LastComponent(s) ==
    IF s = <<>> \/ s[Len(s)] = "/" THEN <<>>
    ELSE Append(LastComponent(SubSeq(s, 1, Len(s) - 1)), s[Len(s)])

\* faulty variant, for sensitivity of the properties: the waveform is refreshed whatever the first command answered
change_wave_formatAlwaysRefreshes(signal_path, format) ==
    /\ Call([name |-> "change_wave_format", signal_path |-> signal_path,
             format |-> format])
    /\ IF ~is_connected
       THEN Refuse(NotConnected)
       ELSE \E x \in ExecuteTcl(<<"property wave -radix ", format, " ">>
                                \o LastComponent(signal_path)) :
              /\ \E y \in ExecuteTcl(<<"wave refresh">>) :
                    calls' = x.sent \o y.sent
              /\ Return(RetMap(x.result))
    /\ Plain
    /\ UNCHANGED client

change_wave_format(signal_path, format) ==
    /\ Call([name |-> "change_wave_format", signal_path |-> signal_path,
             format |-> format])
    /\ IF ~is_connected
       THEN Refuse(NotConnected)
       ELSE \E x \in ExecuteTcl(<<"property wave -radix ", format, " ">>
                                \o LastComponent(signal_path)) :
              /\ IF x.result.success
                 THEN \E y \in ExecuteTcl(<<"wave refresh">>) :
                        calls' = x.sent \o y.sent
                 ELSE calls' = x.sent
              /\ Return(RetMap(x.result))
    /\ Plain
    /\ UNCHANGED client

\* faulty variant, for sensitivity of the properties: the client is dropped only when the server confirms
shutdown_serverOnSuccess ==
    /\ Call([name |-> "shutdown_server"])
    /\ IF is_connected
       THEN \E r \in Responses :
              /\ calls' = <<Sent([name |-> "shutdown_server"], r)>>
              /\ Return(RetMap(r))
              /\ client' = IF r.success THEN NoClient ELSE client
       ELSE /\ Refuse(NotConnected)
            /\ UNCHANGED client
    /\ Plain

shutdown_server ==
    /\ Call([name |-> "shutdown_server"])
    /\ IF is_connected
       THEN /\ Forward([name |-> "shutdown_server"])
            /\ client' = NoClient
       ELSE /\ Refuse(NotConnected)
            /\ UNCHANGED client
    /\ Plain

----------------------------------------------------------------------------
(* ModelSimController.quick_recompile_and_run *)

FourSteps == [recompile |-> EmptyMap, restart |-> EmptyMap, run |-> EmptyMap,
              wave_refresh |-> EmptyMap]

\* the mappings returned before any step runs
QuickRefused(message) ==
    [success |-> FALSE, message |-> message, recompile |-> EmptyMap,
     restart |-> EmptyMap, run |-> EmptyMap, wave_refresh |-> EmptyMap]

\* faulty variant, for sensitivity of the properties: the failure path sets success and forgets the message
QuickFailedNoMessage(res, message) == res @@ ("success" :> FALSE)

\* results["success"] = False; results["message"] = message; return results
QuickFailed(res, message) ==
    res @@ ("success" :> FALSE) @@ ("message" :> message)

\* results["success"] = True; results["message"] = ...; return results
QuickCompleted(res) ==
    res @@ ("success" :> TRUE)
        @@ ("message" :> "All steps completed successfully")

\* where the workflow goes after a step that succeeded
AfterRecompile == IF op'.restart THEN "q_restart" ELSE "q_run"
AfterRun == IF ~op.refresh_wave THEN "done"
            ELSE IF op.zoom_range.given THEN "q_zoom" ELSE "q_refresh"

\* the call, up to and including step 1: the checks and the recompile
quick_recompile_and_run(files, tb, sim_time, restart_, refresh_wave, zoom_range) ==
    /\ Call([name |-> "quick_recompile_and_run", design_files |-> files,
             testbench_file |-> tb, sim_time |-> sim_time,
             restart |-> restart_, refresh_wave |-> refresh_wave,
             zoom_range |-> zoom_range])
    /\ LET df == OrStored(files, design_files)
           t  == TestbenchOr(tb)
       IN  IF ~is_connected
           THEN /\ Refuse(QuickRefused("Not connected to ModelSim server"))
                /\ results' = EmptyResults
           ELSE IF df = <<>> \/ ~t.given
           THEN /\ Refuse(QuickRefused("No design files specified"))
                /\ results' = EmptyResults
           ELSE \E r \in Responses :
                  /\ calls' = <<Sent([name |-> "recompile",
                                      design_files |->
                                          [i \in 1 .. Len(df) |-> StrPath(df[i])],
                                      testbench_file |-> StrPath(t.val)], r)>>
                  /\ results' = [FourSteps EXCEPT !.recompile = r]
                  /\ IF ~r.success
                     THEN Return(RetMap(QuickFailed(results', "Compilation failed")))
                     ELSE ret' = NoRet /\ pc' = AfterRecompile
    /\ NoConnect
    /\ launched' = FALSE
    /\ UNCHANGED <<client, Stored, transcript, sinceDisc>>

QuickFrame == UNCHANGED <<client, Stored, transcript, sinceDisc, op, created,
                          fwd, attempts, waits, launched, effects>>

\* faulty variant, for sensitivity of the properties: a failed restart is recorded and the workflow goes on
QuickRestartGoesOn ==
    /\ pc = "q_restart"
    /\ \E r \in Responses :
         /\ calls' = Append(calls, Sent([name |-> "restart_simulation"], r))
         /\ results' = [results EXCEPT !.restart = r]
         /\ ret' = NoRet /\ pc' = "q_run"
    /\ QuickFrame

\* step 2: restart
QuickRestart ==
    /\ pc = "q_restart"
    /\ \E r \in Responses :
         /\ calls' = Append(calls, Sent([name |-> "restart_simulation"], r))
         /\ results' = [results EXCEPT !.restart = r]
         /\ IF ~r.success
            THEN Return(RetMap(QuickFailed(results', "Restart failed")))
            ELSE ret' = NoRet /\ pc' = "q_run"
    /\ QuickFrame

\* step 3: run, and the return when no refresh was asked for
QuickRun ==
    /\ pc = "q_run"
    /\ \E r \in Responses :
         /\ calls' = Append(calls, Sent([name |-> "run_simulation",
                                         time |-> op.sim_time], r))
         /\ results' = [results EXCEPT !.run = r]
         /\ IF ~r.success
            THEN Return(RetMap(QuickFailed(results', "Simulation run failed")))
            ELSE IF AfterRun = "done"
            THEN Return(RetMap(QuickCompleted(results')))
            ELSE ret' = NoRet /\ pc' = AfterRun
    /\ QuickFrame

\* step 4 with zoom_range: self.zoom_waveform_range(start, end), result dropped
QuickZoom ==
    /\ pc = "q_zoom"
    /\ \E x \in ExecuteTcl(<<"wave zoom range ", op.zoom_range.val[1], " ",
                            op.zoom_range.val[2]>>) :
         calls' = calls \o x.sent
    /\ pc' = "q_refresh"
    /\ UNCHANGED <<ret, results>>
    /\ QuickFrame

\* step 4: the refresh, whose result does not decide success
QuickRefresh ==
    /\ pc = "q_refresh"
    /\ \E r \in Responses :
         /\ calls' = Append(calls, Sent([name |-> "refresh_waveform"], r))
         /\ results' = [results EXCEPT !.wave_refresh = r]
         /\ Return(RetMap(QuickCompleted(results')))
    /\ QuickFrame

----------------------------------------------------------------------------
(* ModelSimController.capture_waveform_window *)

RespGeometry == [success |-> TRUE, message |-> "OK",
                 output |-> "1200x600+100+50", errors |-> <<>>,
                 warnings |-> <<>>]
RespBadGeometry == [success |-> TRUE, message |-> "OK", output |-> "no wave",
                    errors |-> <<>>, warnings |-> <<>>]
GeometryResponses == Responses \cup {RespGeometry, RespBadGeometry}

\* re.match(r'(\d+)x(\d+)\+(-?\d+)\+(-?\d+)', geometry_str), on these outputs
GeometryMatches(geometry_str) == geometry_str = "1200x600+100+50"

\* what the Win32 calls do: the window is captured, is not there, or a call raises
WindowOutcomes == {"captured", "no window", "raise"}

\* the result once the packages are imported and the geometry was asked for
CaptureResult(r, window, output_path) ==
    IF ~r.success
    THEN [success |-> FALSE,
          message |-> <<"Failed to get wave geometry: ", r.message>>,
          errors |-> r.errors]
    ELSE IF r.output = ""
    THEN [success |-> FALSE,
          message |-> <<"Empty geometry response from ModelSim">>]
    ELSE IF ~GeometryMatches(r.output)
    THEN [success |-> FALSE,
          message |-> <<"Invalid geometry format: ", r.output>>]
    ELSE IF window = "no window"
    THEN [success |-> FALSE, message |-> <<"ModelSim window not found">>]
    ELSE IF window = "raise"
    THEN [success |-> FALSE, message |-> <<"Screenshot failed: ", "error">>,
          traceback |-> "traceback"]
    ELSE [success |-> TRUE, image |-> "image", geometry |-> r.output,
          message |-> <<"Waveform window captured successfully">>]
         @@ (IF output_path.given THEN "path" :> output_path.val ELSE EmptyMap)

\* win32gui.EnumWindows was called; an image was saved to `path`
Searched == [what |-> "EnumWindows", path |-> <<>>]
Saved(path) == [what |-> "save", path |-> path]

\* packages: the imports succeed; window: what the Win32 calls do
capture_waveform_window(output_path) ==
    /\ Enter([name |-> "capture_waveform_window", output_path |-> output_path])
    /\ IF ~is_connected
       THEN /\ Refuse([success |-> FALSE,
                       message |-> <<"Not connected to ModelSim">>])
            /\ effects' = <<>>
       ELSE \E packages \in BOOLEAN :
              IF ~packages
              THEN /\ Refuse([success |-> FALSE,
                              message |-> <<"Missing required packages: ",
                                            "win32gui">>])
                   /\ effects' = <<>>
              ELSE \E r \in GeometryResponses :
                     \E window \in IF r.success /\ GeometryMatches(r.output)
                                    THEN WindowOutcomes ELSE {"captured"} :
                       /\ calls' = <<Sent([name |-> "get_wave_geometry"], r)>>
                       /\ Return(RetMap(CaptureResult(r, window, output_path)))
                       /\ effects' =
                            (IF r.success /\ GeometryMatches(r.output)
                             THEN <<Searched>> ELSE <<>>)
                            \o (IF r.success /\ GeometryMatches(r.output)
                                   /\ window = "captured" /\ output_path.given
                                THEN <<Saved(<<output_path.val>>)>> ELSE <<>>)
    /\ Plain
    /\ UNCHANGED client

----------------------------------------------------------------------------
(* ModelSimController.capture_screenshot *)

valid_targets == {"modelsim", "wave", "objects", "processes", "transcript", "sim"}

PANEL_WIDGET_PATHS ==
    [wave |-> ".main_pane.wave", transcript |-> ".main_pane.transcript",
     objects |-> ".main_pane.objects", processes |-> ".main_pane.process",
     sim |-> ".main_pane.structure"]

\* the targets a caller asks for: the valid ones and two that are not
ArgTargets == valid_targets \cup {"waveform", "Wave"}
ArgShotPaths == {NoneArg, Some(<<"custom", "\\", "my_wave.png">>)}

\* self.project_root / 'temp' / f'modelsim_{target}.png', as a string
DefaultShotPath(target) ==
    StrPath(ProjectRoot) \o <<"\\", "temp", "\\", "modelsim_", target, ".png">>

\* what `winfo id <widget>` is answered with
RespHex == [success |-> TRUE, message |-> "OK", output |-> "0x12345",
            errors |-> <<>>, warnings |-> <<>>]
RespDec == [success |-> TRUE, message |-> "OK", output |-> "74565",
            errors |-> <<>>, warnings |-> <<>>]
RespNoOutput == [success |-> TRUE, message |-> "OK"]
HwndResponses == {RespErr, RespOk, RespHex, RespDec, RespNoOutput}

\* int(hwnd_str, 16) or int(hwnd_str) of result['output'].strip(), on these
\* answers; KeyError and ValueError give no handle
ParseHwnd(result) ==
    IF "output" \notin DOMAIN result THEN NoneArg
    ELSE IF result.output = "0x12345" THEN Some(74565)
    ELSE IF result.output = "74565" THEN Some(74565)
    ELSE NoneArg

\* self._find_modelsim_window(): the import fails, no window has ModelSim in
\* its title, or one has
FindWindowOutcomes == {"ImportError", "None", "found"}

\* faulty variant, for sensitivity of the properties: the command is sent through whatever client there is
_get_panel_hwnd_unguarded(widget_path) ==
    IF ~client.present
    THEN {[sent |-> <<>>, hwnd |-> NoneArg]}
    ELSE {[sent |-> <<Sent([name |-> "execute_tcl",
                            tcl_code |-> <<"winfo id ", widget_path>>], r)>>,
           hwnd |-> IF r.success THEN ParseHwnd(r) ELSE NoneArg] :
             r \in HwndResponses}

\* self._get_panel_hwnd_via_tcl(widget_path): the client calls it makes and
\* the handle it returns; without a handle it raises RuntimeError
_get_panel_hwnd_via_tcl(widget_path) ==
    IF ~is_connected
    THEN {[sent |-> <<>>, hwnd |-> NoneArg]}
    ELSE {[sent |-> <<Sent([name |-> "execute_tcl",
                            tcl_code |-> <<"winfo id ", widget_path>>], r)>>,
           hwnd |-> IF r.success THEN ParseHwnd(r) ELSE NoneArg] :
             r \in HwndResponses}

\* self._capture_window_by_hwnd(hwnd, output_path): a Win32 call raises, or
\* the image is saved
BitBltOutcomes == {"raise", "captured"}
_capture_window_by_hwnd(searched, target, path) ==
    \E outcome \in BitBltOutcomes :
        IF outcome = "raise"
        THEN effects' = searched /\ Return(RetRaise("pywintypes.error"))
        ELSE /\ effects' = Append(searched, Saved(path))
             /\ Return(RetMap([success |-> TRUE, image |-> "image",
                               path |-> path, width |-> 1091, height |-> 320,
                               target |-> target,
                               message |-> <<"Captured ", target, " panel to ">>
                                               \o path]))

capture_screenshot(target, output_path) ==
    /\ Enter([name |-> "capture_screenshot", target |-> target,
              output_path |-> output_path])
    /\ IF target \notin valid_targets
       THEN calls' = <<>> /\ effects' = <<>> /\ Return(RetRaise("ValueError"))
       ELSE LET path == IF output_path.given THEN output_path.val
                        ELSE DefaultShotPath(target)
            IN  IF target = "modelsim"
                THEN /\ calls' = <<>>
                     /\ \E window \in FindWindowOutcomes :
                          IF window = "ImportError"
                          THEN effects' = <<>> /\ Return(RetRaise("ImportError"))
                          ELSE IF window = "None"
                          THEN /\ effects' = <<Searched>>
                               /\ Return(RetRaise("RuntimeError"))
                          ELSE _capture_window_by_hwnd(<<Searched>>, target, path)
                ELSE \E x \in _get_panel_hwnd_via_tcl(PANEL_WIDGET_PATHS[target]) :
                       /\ calls' = x.sent
                       /\ IF ~x.hwnd.given
                          THEN effects' = <<>> /\ Return(RetRaise("RuntimeError"))
                          ELSE _capture_window_by_hwnd(<<>>, target, path)
    /\ Plain
    /\ UNCHANGED client

\* a controller that connects, disconnects and takes screenshots
ScreenshotNext ==
    \/ \E N \in RetryCounts, D \in RetryDelays : connect(N, D)
    \/ ClientConnectAttempt
    \/ disconnect
    \/ \E t \in ArgTargets, o \in ArgShotPaths : capture_screenshot(t, o)

ScreenshotSpec == Init /\ [][ScreenshotNext]_vars

----------------------------------------------------------------------------
(* The transcript and its analysis *)

\* analyze_simulation(recent_only=True) reads the last 100 lines
RecentLines == 100

\* a text: its lines, and whether the last one ends with a newline
Text(ls, nl) == [lines |-> ls, nl |-> nl]
EmptyText == Text(<<>>, FALSE)
RetText(t) == [kind |-> "str", val |-> t]
RetValue(v) == [kind |-> "value", val |-> v]

\* the characters of the lines; a long text is summed by halves
RECURSIVE SumWidth(_)
SumWidth(ls) ==
    IF ls = <<>> THEN 0
    ELSE IF Len(ls) = 1 THEN Head(ls).width
    ELSE LET half == Len(ls) \div 2
         IN  SumWidth(SubSeq(ls, 1, half))
                 + SumWidth(SubSeq(ls, half + 1, Len(ls)))

\* len(text)
TextLen(t) ==
    IF t.lines = <<>> THEN 0
    ELSE SumWidth(t.lines) + (Len(t.lines) - 1) + (IF t.nl THEN 1 ELSE 0)

\* faulty variant, for sensitivity of the properties: the first n lines, all_lines[:n]
LastLinesFromTop(ls, n) == SubSeq(ls, 1, IF Len(ls) > n THEN n ELSE Len(ls))

\* all_lines[-n:] for n >= 1
LastLines(ls, n) == SubSeq(ls, IF Len(ls) > n THEN Len(ls) - n + 1 ELSE 1, Len(ls))

\* self.read_transcript(lines); readable: read_text raises nothing
ReadTranscript(lines, readable) ==
    IF ~transcript.exists THEN EmptyText
    ELSE IF ~readable THEN EmptyText
    ELSE IF lines.given /\ lines.val # 0
    THEN Text(LastLines(transcript.lines, lines.val), FALSE)
    ELSE Text(transcript.lines, transcript.lines # <<>>)

\* `transcript` when given, the file otherwise
TextOr(arg, readable) ==
    IF arg.given THEN Text(arg.val, FALSE) ELSE ReadTranscript(NoneArg, readable)

IsErrorLine(l) == "** error" \in l.has \/ "error:" \in l.has
IsWarningLine(l) ==
    ~IsErrorLine(l) /\ ("** warning" \in l.has \/ "warning:" \in l.has)
Texts(ls) == [i \in 1 .. Len(ls) |-> ls[i].text]

CheckForErrors(t) ==
    LET errors   == Texts(SelectSeq(t.lines, IsErrorLine))
        warnings == Texts(SelectSeq(t.lines, IsWarningLine))
    IN  [has_errors |-> Len(errors) > 0, has_warnings |-> Len(warnings) > 0,
         error_count |-> Len(errors), warning_count |-> Len(warnings),
         errors |-> errors, warnings |-> warnings]

\* the loop of find_test_results: every TEST_RESULT: line is collected, and
\* among those with PASS or FAIL (PASS is looked for first) each overwrites
\* passed and message, so the last of them gives both
IsResultLine(l) == "TEST_RESULT:" \in l.has
Decides(l) == IsResultLine(l) /\ ("PASS" \in l.has \/ "FAIL" \in l.has)

FindTestResults(t) ==
    LET all_results == SelectSeq(t.lines, IsResultLine)
        deciding    == SelectSeq(t.lines, Decides)
        last        == deciding[Len(deciding)]
    IN  [found |-> all_results # <<>>,
         passed |-> deciding # <<>> /\ "PASS" \in last.has,
         message |-> IF deciding = <<>> THEN "" ELSE last.text,
         all_results |-> Texts(all_results)]

\* the keyword in lower case, as re.IGNORECASE compares it
Lower(word) == IF word = "Pulse" THEN "pulse" ELSE word
Keywords == {"Pulse", "count"}

MatchesPulse(l, signal_path) == l.ns.given /\ Lower(signal_path) \in l.after

\* the times of the matching lines, in order; a long text goes by halves
RECURSIVE PulseTimes(_, _)
PulseTimes(ls, signal_path) ==
    IF ls = <<>> THEN <<>>
    ELSE IF Len(ls) = 1
    THEN IF MatchesPulse(Head(ls), signal_path) THEN <<Head(ls).ns.val>>
         ELSE <<>>
    ELSE LET half == Len(ls) \div 2
         IN  PulseTimes(SubSeq(ls, 1, half), signal_path)
                 \o PulseTimes(SubSeq(ls, half + 1, Len(ls)), signal_path)

\* faulty variant, for sensitivity of the properties: success looks at the errors only
AnalyzeSimulationErrorsOnly(t) ==
    LET error_check  == CheckForErrors(t)
        test_results == FindTestResults(t)
    IN  [transcript_length |-> TextLen(t), errors |-> error_check,
         test_results |-> test_results,
         success |-> ~error_check.has_errors]

AnalyzeSimulation(t) ==
    LET error_check  == CheckForErrors(t)
        test_results == FindTestResults(t)
    IN  [transcript_length |-> TextLen(t), errors |-> error_check,
         test_results |-> test_results,
         success |-> ~error_check.has_errors
                     /\ (~test_results.found \/ test_results.passed)]

\* what the methods that only read leave alone: everything but the result
ReadOnly ==
    /\ calls' = <<>>
    /\ NoConnect
    /\ NoLaunch
    /\ UNCHANGED <<client, Stored, sinceDisc>>

\* faulty variant, for sensitivity of the properties: the file is opened for writing, which empties it
read_transcriptTruncating(lines, readable) ==
    /\ Call([name |-> "read_transcript", lines |-> lines, readable |-> readable])
    /\ Return(RetText(ReadTranscript(lines, readable)))
    /\ transcript' = [transcript EXCEPT !.lines = <<>>]
    /\ ReadOnly

read_transcript(lines, readable) ==
    /\ Call([name |-> "read_transcript", lines |-> lines, readable |-> readable])
    /\ Return(RetText(ReadTranscript(lines, readable)))
    /\ UNCHANGED transcript
    /\ ReadOnly

check_for_errors(text, readable) ==
    /\ Call([name |-> "check_for_errors", transcript |-> text,
             readable |-> readable])
    /\ Return(RetValue(CheckForErrors(TextOr(text, readable))))
    /\ UNCHANGED transcript
    /\ ReadOnly

find_test_results(text, readable) ==
    /\ Call([name |-> "find_test_results", transcript |-> text,
             readable |-> readable])
    /\ Return(RetValue(FindTestResults(TextOr(text, readable))))
    /\ UNCHANGED transcript
    /\ ReadOnly

find_pulse_times(signal_path, text, readable) ==
    /\ Call([name |-> "find_pulse_times", signal_path |-> signal_path,
             transcript |-> text, readable |-> readable])
    /\ Return(RetValue(PulseTimes(TextOr(text, readable).lines, signal_path)))
    /\ UNCHANGED transcript
    /\ ReadOnly

analyze_simulation(recent_only, readable) ==
    /\ Call([name |-> "analyze_simulation", recent_only |-> recent_only,
             readable |-> readable])
    /\ Return(RetValue(AnalyzeSimulation(
           ReadTranscript(IF recent_only THEN Some(RecentLines) ELSE NoneArg,
                          readable))))
    /\ UNCHANGED transcript
    /\ ReadOnly

----------------------------------------------------------------------------
(* The simulator writes its transcript *)

ToolWrite ==
    /\ Call([name |-> "(simulator)"])
    /\ Len(transcript.lines) < MaxLines
    /\ transcript' = [exists |-> TRUE,
                      lines |-> Append(transcript.lines,
                                       NextLine(Len(transcript.lines) + 1))]
    /\ calls' = <<>>
    /\ Return(RetNone)
    /\ NoConnect
    /\ NoLaunch
    /\ UNCHANGED <<client, design_files, testbench_file, top_module,
                   lastStart, sinceDisc>>

----------------------------------------------------------------------------
Next ==
    \/ \E N \in RetryCounts, D \in RetryDelays : connect(N, D)
    \/ ClientConnectAttempt
    \/ \E D \in DesignLists, T \in TestbenchFiles, M \in Modules,
          a \in BOOLEAN, l \in LaunchOutcomes :
          start_gui_with_server(D, T, M, a, l)
    \/ disconnect
    \/ ping
    \/ \E f \in ArgDesign, t \in ArgTestbench : recompile(f, t)
    \/ restart
    \/ \E t \in Times : run(t)
    \/ refresh_waveform
    \/ execute_tcl(<<"pwd">>)
    \/ zoom_waveform_range("1ms", "2ms")
    \/ zoom_waveform_full
    \/ \E p \in {NoneArg} \cup {Some(x) : x \in SignalPaths} : add_wave(p)
    \/ \E p \in SignalPaths, f \in Formats : change_wave_format(p, f)
    \/ shutdown_server
    \/ \E f \in ArgDesign, t \in ArgTestbench, st \in Times, rs \in BOOLEAN,
          rw \in BOOLEAN, z \in ZoomRanges :
          quick_recompile_and_run(f, t, st, rs, rw, z)
    \/ QuickRestart
    \/ QuickRun
    \/ QuickZoom
    \/ QuickRefresh
    \/ \E o \in {NoneArg, Some("wave.png")} : capture_waveform_window(o)
    \/ \E n \in LineCounts, ok \in BOOLEAN : read_transcript(n, ok)
    \/ \E t \in ArgTranscript, ok \in BOOLEAN : check_for_errors(t, ok)
    \/ \E t \in ArgTranscript, ok \in BOOLEAN : find_test_results(t, ok)
    \/ \E k \in Keywords, t \in ArgTranscript, ok \in BOOLEAN :
          find_pulse_times(k, t, ok)
    \/ \E recent \in BOOLEAN, ok \in BOOLEAN : analyze_simulation(recent, ok)
    \/ ToolWrite

Spec == Init /\ [][Next]_vars

----------------------------------------------------------------------------
(* scripts/start_modelsim.py: the command line that starts the GUI *)

\* path strings as they are typed: names, separators and a drive
Drives == {"C:", "D:"}
Separators == {"\\", "/"}
S_rel == <<"hdl", "/", "a.v">>
S_in  == <<"C:", "\\", "proj", "\\", "hdl", "\\", "tb.v">>
S_out == <<"D:", "\\", "lib", "\\", "b.v">>
IsName(tok) == tok \notin Separators

\* Path(s)
Path(s) ==
    IF s # <<>> /\ Head(s) \in Drives
    THEN MkPath(Head(s), SelectSeq(Tail(s), IsName))
    ELSE MkPath("", SelectSeq(s, IsName))

\* sys.argv: too few arguments, the three required ones, and with sim_time
CommandLines ==
    {<<"start_modelsim.py">>,
     <<"start_modelsim.py", S_rel, S_in>>,
     <<"start_modelsim.py", S_rel, S_in, "counter_tb">>,
     <<"start_modelsim.py", S_out, S_in, "counter_tb", "1us">>}

\* the transcript a run finds: none, or what the simulator wrote earlier
TranscriptPrefix(n) == [i \in 1 .. n |-> NextLine(i)]
TranscriptsFound ==
    {[exists |-> FALSE, lines |-> <<>>]}
        \cup {[exists |-> TRUE, lines |-> TranscriptPrefix(n)] : n \in 0 .. MaxLines}

RetExit(status) == [kind |-> "exit", val |-> status]

\* the process is started with a command line; the controller is the one
\* start_modelsim constructs
StartInit ==
    /\ client = NoClient
    /\ design_files = <<>>
    /\ testbench_file = NoneArg
    /\ top_module = ""
    /\ transcript \in TranscriptsFound
    /\ pc = "idle"
    /\ op \in {[name |-> "argv", argv |-> a] : a \in CommandLines}
    /\ ret = NoRet
    /\ calls = <<>>
    /\ created = 0
    /\ fwd = NoFwd
    /\ attempts = 0
    /\ waits = <<>>
    /\ results = EmptyResults
    /\ launched = FALSE
    /\ effects = <<>>
    /\ lastStart = NoneArg
    /\ sinceDisc = FALSE

\* start_modelsim up to the return of controller.start_gui_with_server,
\* which it calls with auto_connect left at its default
start_modelsim(design, testbench, top) ==
    \E launch \in LaunchOutcomes :
        start_gui_with_server(<<Path(design)>>, Path(testbench), top, TRUE,
                              launch)

\* main(): the usage exit, or the call of start_modelsim
main ==
    /\ pc = "idle"
    /\ op.name = "argv"
    /\ IF Len(op.argv) < 4
       THEN /\ op' = [name |-> "sys.exit", called |-> FALSE, started |-> NoRet]
            /\ ret' = RetExit(1)
            /\ pc' = "exited"
            /\ UNCHANGED <<client, Stored, transcript, calls, created, fwd,
                           attempts, waits, results, launched, effects,
                           sinceDisc>>
       ELSE start_modelsim(op.argv[2], op.argv[3], op.argv[4])

\* the rest of start_modelsim: the value of start_gui_with_server is dropped,
\* the transcript is read and printed, and only an exception gives False
start_modelsimReturn ==
    /\ pc = "idle"
    /\ op.name = "start_gui_with_server"
    /\ op' = [name |-> "start_modelsim", started |-> ret]
    /\ ret' = RetBool(ret.kind # "raise")
    /\ pc' = "idle"
    /\ UNCHANGED <<client, Stored, transcript, calls, created, fwd, attempts,
                   waits, results, launched, effects, sinceDisc>>

\* sys.exit(0 if success else 1)
mainExit ==
    /\ pc = "idle"
    /\ op.name = "start_modelsim"
    /\ op' = [name |-> "sys.exit", called |-> TRUE, started |-> op.started]
    /\ ret' = RetExit(IF ret.val THEN 0 ELSE 1)
    /\ pc' = "exited"
    /\ UNCHANGED <<client, Stored, transcript, calls, created, fwd, attempts,
                   waits, results, launched, effects, sinceDisc>>

StartNext ==
    \/ main
    \/ ClientConnectAttempt
    \/ start_modelsimReturn
    \/ mainExit

StartSpec == StartInit /\ [][StartNext]_vars

----------------------------------------------------------------------------
(* Transcripts longer than the part analyze_simulation reads *)

\* lines of interest before and after a stretch of plain lines: at most MaxEdge
MaxEdge == 1

L_fail == [text |-> "# TEST_RESULT: FAIL", width |-> 19,
           has |-> {"TEST_RESULT:", "FAIL"}, ns |-> NoneArg, after |-> {}]
EdgeLines == {L_err, L_pass, L_fail}
Filler(n) == [i \in 1 .. n |-> L_plain]
FillerLengths == {0, RecentLines - 1, RecentLines}

\* the transcript file a controller finds in <project_root>/sim
LongTranscripts ==
    {[exists |-> FALSE, lines |-> <<>>]}
        \cup {[exists |-> TRUE, lines |-> h \o Filler(n) \o t] :
                h \in SeqsUpTo(EdgeLines, MaxEdge), n \in FillerLengths,
                t \in SeqsUpTo(EdgeLines, MaxEdge)}

\* a new controller beside such a transcript
TranscriptInit ==
    /\ client = NoClient
    /\ design_files = <<>>
    /\ testbench_file = NoneArg
    /\ top_module = ""
    /\ transcript \in LongTranscripts
    /\ pc = "idle"
    /\ op = [name |-> "__init__"]
    /\ ret = RetNone
    /\ calls = <<>>
    /\ created = 0
    /\ fwd = NoFwd
    /\ attempts = 0
    /\ waits = <<>>
    /\ results = EmptyResults
    /\ launched = FALSE
    /\ effects = <<>>
    /\ lastStart = NoneArg
    /\ sinceDisc = FALSE

TranscriptNext ==
    \/ \E n \in LineCounts, ok \in BOOLEAN : read_transcript(n, ok)
    \/ \E ok \in BOOLEAN : check_for_errors(NoneArg, ok)
    \/ \E ok \in BOOLEAN : find_test_results(NoneArg, ok)
    \/ \E recent \in BOOLEAN, ok \in BOOLEAN : analyze_simulation(recent, ok)

TranscriptSpec == TranscriptInit /\ [][TranscriptNext]_vars

----------------------------------------------------------------------------
(* recompile with several design files, inside and outside the project *)

\* start_gui_with_server stores at most MaxPathFiles design files
MaxPathFiles == 2

\* a file in a directory whose name starts like the project root's
F_sib == MkPath("C:", <<"proj2", "hdl", "c.v">>)
PathFiles == {F_rel, F_in, F_out, F_sib}
PathLists == SeqsUpTo(PathFiles, MaxPathFiles)

\* a controller that launches the GUI, connects and recompiles
PathNext ==
    \/ \E D \in PathLists, M \in Modules :
          start_gui_with_server(D, F_in, M, FALSE, "process")
    \/ connect(1, DefaultRetryDelay)
    \/ ClientConnectAttempt
    \/ \E f \in {NoneArg, Some(<<F_out, F_rel>>)},
          t \in {NoneArg, Some(F_sib)} : recompile(f, t)

PathSpec == Init /\ [][PathNext]_vars

----------------------------------------------------------------------------
(* scripts/modelsim_runner.py: ModelSimRunner.simulate *)

\* a log holds at most MaxLogLines lines
MaxLogLines == 2

\* lines of a log: the text, the markers parse_log looks for that it holds
\* (case matters), what the error pattern matches in it, and what follows a
\* leading "# "
K_err    == [text |-> "** Error: (vsim-3170) Could not find 'work.tb'.",
             has |-> {"** Error:"},
             found |-> "** Error: (vsim-3170) Could not find 'work.tb'.",
             shown |-> NoneArg]
K_ERROR  == [text |-> "# ERROR: Design compilation failed",
             has |-> {"ERROR:"}, found |-> "ERROR: Design compilation failed",
             shown |-> Some("ERROR: Design compilation failed")]
K_lower  == [text |-> "# Checker error: 0 mismatches", has |-> {}, found |-> "",
             shown |-> Some("Checker error: 0 mismatches")]
K_finish == [text |-> "** Note: $finish    : tb.v(42)", has |-> {"$finish"},
             found |-> "", shown |-> NoneArg]
K_end    == [text |-> "# End time: 10:00:00 on Jan 01,2025",
             has |-> {"End time:"}, found |-> "",
             shown |-> Some("End time: 10:00:00 on Jan 01,2025")]
K_pass   == [text |-> "# TEST_RESULT: PASS", has |-> {"PASS"}, found |-> "",
             shown |-> Some("TEST_RESULT: PASS")]
LogLines == {K_err, K_ERROR, K_lower, K_finish, K_end, K_pass}

\* the log the run leaves at results/logs/sim_<timestamp>.log, if any, and
\* the transcript it leaves in sim/
LogsWritten == {NoneArg} \cup {Some(c) : c \in SeqsUpTo(LogLines, MaxLogLines)}
TranscriptsWritten ==
    {[exists |-> FALSE, lines |-> <<>>],
     [exists |-> TRUE, lines |-> <<K_finish>>],
     [exists |-> TRUE, lines |-> <<K_err, K_end>>]}

\* subprocess.run: vsim exits with a status, or cannot be started
Exited(returncode) == [exited |-> TRUE, returncode |-> returncode]
NotStarted == [exited |-> FALSE, returncode |-> 0]
VsimOutcomes == {Exited(0), Exited(1), NotStarted}

\* run_simulation(tcl_script): (success, stdout, stderr)
run_simulation(vsim) ==
    IF vsim.exited
    THEN [success |-> vsim.returncode = 0, stdout |-> "stdout", stderr |-> ""]
    ELSE [success |-> FALSE, stdout |-> "", stderr |-> "FileNotFoundError"]

IsLogError(l) == "** Error:" \in l.has \/ "ERROR:" \in l.has
IsLogWarning(l) == "** Warning:" \in l.has
IsShown(l) == l.shown.given
Found(ls) == [i \in 1 .. Len(ls) |-> ls[i].found]
Shown(ls) == [i \in 1 .. Len(ls) |-> ls[i].shown.val]
Holds(ls, marker) == \E i \in 1 .. Len(ls) : marker \in ls[i].has

\* faulty variant, for sensitivity of the properties: a log without errors is a success
parse_logErrorsOnly(log, tr) ==
    IF ~log.given /\ ~tr.exists
    THEN [success |-> FALSE,
          errors |-> <<"Log file and transcript not found">>,
          warnings |-> <<>>, display_outputs |-> <<>>]
    ELSE LET log_content == IF log.given THEN log.val ELSE tr.lines
             errors == Found(SelectSeq(log_content, IsLogError))
         IN  [success |-> Len(errors) = 0, errors |-> errors,
              warnings |-> Found(SelectSeq(log_content, IsLogWarning)),
              display_outputs |-> Shown(SelectSeq(log_content, IsShown)),
              raw_log |-> log_content]

\* parse_log(log_file): the log when it exists, else sim/transcript
parse_log(log, tr) ==
    IF ~log.given /\ ~tr.exists
    THEN [success |-> FALSE,
          errors |-> <<"Log file and transcript not found">>,
          warnings |-> <<>>, display_outputs |-> <<>>]
    ELSE LET log_content == IF log.given THEN log.val ELSE tr.lines
             errors == Found(SelectSeq(log_content, IsLogError))
             has_finish == Holds(log_content, "$finish")
                               \/ Holds(log_content, "End time:")
             has_pass == Holds(log_content, "PASS")
         IN  [success |-> Len(errors) = 0 /\ (has_finish \/ has_pass),
              errors |-> errors,
              warnings |-> Found(SelectSeq(log_content, IsLogWarning)),
              display_outputs |-> Shown(SelectSeq(log_content, IsShown)),
              raw_log |-> log_content]

\* simulate(...): vsim runs and leaves `log` and the transcript `tr`
simulate(top, vsim, log, tr) ==
    /\ Call([name |-> "simulate", top_module |-> top, vsim |-> vsim,
             log |-> log])
    /\ transcript' = tr
    /\ LET ran == run_simulation(vsim)
           log_analysis == parse_log(log, tr)
       IN  Return(RetMap([overall_success |-> ran.success /\ log_analysis.success,
                          tcl_script |-> "sim_<timestamp>.tcl",
                          log_file |-> "sim_<timestamp>.log",
                          stdout |-> ran.stdout, stderr |-> ran.stderr,
                          log_analysis |-> log_analysis]))
    /\ calls' = <<>>
    /\ NoConnect
    /\ NoLaunch
    /\ UNCHANGED <<client, Stored, sinceDisc>>

\* one run of simulate: it keeps nothing from one call to the next
RunnerNext ==
    /\ op.name = "__init__"
    /\ \E top \in Modules, vsim \in VsimOutcomes, log \in LogsWritten,
          tr \in TranscriptsWritten : simulate(top, vsim, log, tr)

RunnerSpec == Init /\ [][RunnerNext]_vars

----------------------------------------------------------------------------
(* Properties *)

Idle(name) == pc = "idle" /\ op.name = name

\* C1: a connect(max_retries = N, retry_delay = D) that the server never
\* accepts makes exactly N attempts, sleeps D between consecutive attempts
\* (N - 1 times, never after the last), and only then returns False; the
\* client is called with the N and D that connect was given.
C1_RetriesThenFails ==
    /\ op.name = "connect" /\ fwd.given =>
         /\ fwd.max_retries = op.max_retries
         /\ fwd.retry_delay = op.retry_delay
         /\ attempts <= op.max_retries
         /\ pc = "connecting" =>
              /\ attempts < op.max_retries
              /\ waits = [i \in 1 .. attempts |-> op.retry_delay]
    /\ Idle("connect") /\ ret = RetBool(FALSE) =>
         /\ fwd.given
         /\ attempts = op.max_retries
         /\ waits = [i \in 1 .. (op.max_retries - 1) |-> op.retry_delay]
         /\ ~is_connected

C1_Witness ==
    /\ Idle("connect")
    /\ ret = RetBool(FALSE)
    /\ op.max_retries = 2
    /\ op.retry_delay = 2
    /\ attempts = 2
    /\ waits = <<2>>

\* C2 as stated: every failing response a listed operation got from the
\* client reaches the caller unmodified: it is the operation's result, or an
\* entry of the result of quick_recompile_and_run.
ListedOps == {"restart", "run", "refresh_waveform", "execute_tcl", "recompile",
              "zoom_waveform_range", "zoom_waveform_full", "add_wave",
              "change_wave_format", "quick_recompile_and_run"}
StepKeys == {"recompile", "restart", "run", "wave_refresh"}
KeyOf(command) ==
    CASE command = "recompile" -> "recompile"
      [] command = "restart_simulation" -> "restart"
      [] command = "run_simulation" -> "run"
      [] command = "refresh_waveform" -> "wave_refresh"

C2_EveryFailureSurfaced ==
    pc = "idle" /\ op.name \in ListedOps =>
        /\ ret.kind = "map"
        /\ \A i \in 1 .. Len(calls) :
             ~calls[i].resp.success =>
                 IF op.name = "quick_recompile_and_run"
                 THEN \E k \in StepKeys : ret.val[k] = calls[i].resp
                 ELSE ret.val = calls[i].resp

\* C2, amended: every listed operation returns a mapping, and a failing
\* response reaches the caller unmodified when it answers the operation's
\* own command: the one command of a single-command operation and the
\* 'property wave' command of change_wave_format are returned as they are,
\* and quick_recompile_and_run stores the failing response of recompile,
\* restart, run or refresh under that step's key.  The responses to the
\* follow-up 'wave refresh' of change_wave_format and to the zoom command
\* of quick_recompile_and_run are not part of any result.
C2_OwnFailureSurfaced ==
    pc = "idle" /\ op.name \in ListedOps =>
        /\ ret.kind = "map"
        /\ \A i \in 1 .. Len(calls) :
             ~calls[i].resp.success =>
                 IF op.name = "quick_recompile_and_run"
                 THEN calls[i].cmd.name # "execute_tcl" =>
                          ret.val[KeyOf(calls[i].cmd.name)] = calls[i].resp
                 ELSE i = 1 => ret.val = calls[i].resp

C2_Witness ==
    /\ Idle("quick_recompile_and_run")
    /\ Len(calls) = 3
    /\ calls[3].resp = RespTimeout
    /\ ret.val.run = RespTimeout
    /\ ret.val.run.errors = <<>>

\* C3: called on a controller that is not connected (no client, or a client
\* that reports not connected), each guarded operation returns at once with
\* a failure (False for ping, a mapping with success False otherwise), calls
\* no client method, and leaves client, design_files, testbench_file and
\* top_module as they were.
GuardedOps == {"ping", "recompile", "restart", "run", "refresh_waveform",
               "zoom_waveform_range", "zoom_waveform_full", "execute_tcl",
               "add_wave", "change_wave_format", "capture_waveform_window",
               "shutdown_server", "quick_recompile_and_run"}

Failure(name, r) ==
    IF name = "ping" THEN r = RetBool(FALSE)
    ELSE r.kind = "map" /\ "success" \in DOMAIN r.val /\ r.val.success = FALSE

C3_NotConnectedRefused ==
    [][ (/\ pc = "idle"
         /\ op'.name \in GuardedOps
         /\ ~(client.present /\ client.connected))
        => /\ pc' = "idle"
           /\ Failure(op'.name, ret')
           /\ calls' = <<>>
           /\ client' = client
           /\ design_files' = design_files
           /\ testbench_file' = testbench_file
           /\ top_module' = top_module ]_vars

C3_Witness ==
    /\ Idle("change_wave_format")
    /\ client.present
    /\ ~client.connected
    /\ design_files # <<>>
    /\ ret = RetMap(NotConnected)
    /\ calls = <<>>

\* C4: quick_recompile_and_run calls recompile, restart, run and refresh in
\* this order, each at most once and each after the one before it returned
\* success (the only other call is the zoom command, between run and
\* refresh); once recompile, restart or run fails nothing more is called,
\* the later steps' entries stay empty, and the result has success False
\* with that step's message.
StepCommands == {"recompile", "restart_simulation", "run_simulation",
                 "refresh_waveform"}
Rank(command) ==
    CASE command = "recompile" -> 1
      [] command = "restart_simulation" -> 2
      [] command = "run_simulation" -> 3
      [] command = "execute_tcl" -> 4
      [] command = "refresh_waveform" -> 5
      [] OTHER -> 0
FailureMessage(command) ==
    CASE command = "recompile" -> "Compilation failed"
      [] command = "restart_simulation" -> "Restart failed"
      [] command = "run_simulation" -> "Simulation run failed"
LaterKeys(command) ==
    CASE command = "recompile" -> {"restart", "run", "wave_refresh"}
      [] command = "restart_simulation" -> {"run", "wave_refresh"}
      [] command = "run_simulation" -> {"wave_refresh"}

C4_StepsInOrder ==
    op.name = "quick_recompile_and_run" =>
        /\ \A i \in 1 .. Len(calls) : Rank(calls[i].cmd.name) > 0
        /\ \A i, j \in 1 .. Len(calls) :
             i < j => /\ Rank(calls[i].cmd.name) < Rank(calls[j].cmd.name)
                      /\ Rank(calls[i].cmd.name) <= 3 => calls[i].resp.success
        /\ calls # <<>> => calls[1].cmd.name = "recompile"
        /\ \A i \in 1 .. Len(calls) :
             calls[i].cmd.name = "execute_tcl" =>
                 /\ op.zoom_range.given
                 /\ i > 1
                 /\ calls[i - 1].cmd.name = "run_simulation"
        /\ LET last == calls[Len(calls)]
           IN  calls # <<>> /\ Rank(last.cmd.name) <= 3 /\ ~last.resp.success =>
                   /\ pc = "idle"
                   /\ ret.val.success = FALSE
                   /\ ret.val.message = FailureMessage(last.cmd.name)
                   /\ \A k \in LaterKeys(last.cmd.name) : ret.val[k] = EmptyMap

C4_Witness ==
    /\ Idle("quick_recompile_and_run")
    /\ Len(calls) = 2
    /\ calls[1].cmd.name = "recompile"
    /\ calls[2].cmd.name = "restart_simulation"
    /\ ~calls[2].resp.success
    /\ ret.val.message = "Restart failed"
    /\ ret.val.run = EmptyMap

\* C5: whatever path quick_recompile_and_run returns by, the mapping it
\* returns has the six keys success, message, recompile, restart, run and
\* wave_refresh.
SixKeys == {"success", "message", "recompile", "restart", "run", "wave_refresh"}

C5_SixKeys ==
    Idle("quick_recompile_and_run") =>
        ret.kind = "map" /\ SixKeys \subseteq DOMAIN ret.val

C5_Witness ==
    /\ Idle("quick_recompile_and_run")
    /\ ~op.restart
    /\ Len(calls) = 2
    /\ ~calls[2].resp.success
    /\ DOMAIN ret.val = SixKeys
    /\ ret.val.message = "Simulation run failed"

\* C6: start_gui_with_server returns True exactly when the GUI process was
\* launched and the controller is connected when the call returns, and a
\* failed launch makes no connection attempt.
C6_TrueIffLaunchedAndConnected ==
    Idle("start_gui_with_server") /\ ret.kind = "bool" =>
        /\ ret.val <=> (launched /\ client.present /\ client.connected)
        /\ ~launched => attempts = 0 /\ created = 0

\* C7: the design info is what the latest start_gui_with_server stored; a
\* quick_recompile_and_run or recompile on a connected controller sends the
\* client the files and testbench it was given and, for those it was not
\* given, the stored ones (quick_recompile_and_run refuses an empty list).
FileArgument(arg, stored) == IF arg.given THEN arg.val ELSE stored
Each(files, Convert(_)) == [i \in 1 .. Len(files) |-> Convert(files[i])]

C8_ConnectIdempotent ==
    [][ (/\ pc = "idle"
         /\ op'.name = "connect"
         /\ client.present /\ client.connected)
        => /\ pc' = "idle"
           /\ ret' = RetBool(TRUE)
           /\ client' = client
           /\ created' = 0
           /\ attempts' = 0
           /\ ~fwd'.given ]_vars

C8_Witness ==
    /\ Idle("connect")
    /\ op.max_retries = 0
    /\ ret = RetBool(TRUE)
    /\ created = 0
    /\ client = [present |-> TRUE, connected |-> TRUE]

\* C9: once disconnect has returned, client is None (so is_connected() is
\* false) until connect or start_gui_with_server is called; disconnect
\* calls the client's disconnect once when a client is held and nothing
\* when client is None, and touches nothing else.
C9_DisconnectedStays ==
    /\ [](sinceDisc => client = NoClient)
    /\ [][ (pc = "idle" /\ op'.name = "disconnect")
           => /\ pc' = "idle"
              /\ client' = NoClient
              /\ calls' = IF client.present
                          THEN <<Sent([name |-> "disconnect"], EmptyMap)>>
                          ELSE <<>>
              /\ UNCHANGED <<design_files, testbench_file, top_module,
                             transcript>> ]_vars

C9_Witness ==
    /\ sinceDisc
    /\ Idle("quick_recompile_and_run")
    /\ lastStart.given
    /\ client = NoClient
    /\ ret.val.message = "Not connected to ModelSim server"

\* C10: read_transcript, check_for_errors, find_test_results,
\* find_pulse_times and analyze_simulation return a value, connected or
\* not, and leave the transcript file, the client and the stored design
\* info as they were, calling no client method.
TranscriptOps == {"read_transcript", "check_for_errors", "find_test_results",
                  "find_pulse_times", "analyze_simulation"}

C10_TranscriptReadOnly ==
    [][ (pc = "idle" /\ op'.name \in TranscriptOps)
        => /\ pc' = "idle"
           /\ ret'.kind \in {"str", "value"}
           /\ transcript' = transcript
           /\ calls' = <<>>
           /\ client' = client
           /\ UNCHANGED <<design_files, testbench_file, top_module>> ]_vars

C10_Witness ==
    /\ Idle("analyze_simulation")
    /\ is_connected
    /\ design_files # <<>>
    /\ Len(transcript.lines) = 2
    /\ ret.val.transcript_length > 0
    /\ ret.val.test_results.passed

\* C11: start_modelsim returns True, and the command line exits with status
\* 0, only if start_gui_with_server returned True; when the launch or the
\* connection fails (start_gui_with_server returns False), start_modelsim
\* returns False and the command line exits with status 1.
StartedTrue(r) == r.kind = "bool" /\ r.val
StartedFalse(r) == r.kind = "bool" /\ ~r.val

C11_ExitStatusFollowsStart ==
    /\ Idle("start_modelsim") =>
         /\ ret = RetBool(TRUE) => StartedTrue(op.started)
         /\ StartedFalse(op.started) => ret = RetBool(FALSE)
    /\ pc = "exited" /\ op.called =>
         /\ ret.val = 0 => StartedTrue(op.started)
         /\ StartedFalse(op.started) => ret.val = 1

\* C12: analyze_simulation reports success exactly when the analysed lines
\* hold no error line and either no TEST_RESULT: line or a find_test_results
\* that reports passed; with recent_only the analysed lines are the last 100
\* of the transcript, so what stands before them has no effect.
Least(a, b) == IF a < b THEN a ELSE b
Trailing(ls, n) ==
    [i \in 1 .. Least(n, Len(ls)) |-> ls[Len(ls) - Least(n, Len(ls)) + i]]
Analysed ==
    IF ~transcript.exists \/ ~op.readable THEN <<>>
    ELSE IF op.recent_only THEN Trailing(transcript.lines, 100)
    ELSE transcript.lines

C12_SuccessOfAnalysis ==
    Idle("analyze_simulation") =>
        LET ls == Analysed
        IN  /\ ret.val.success <=>
                 /\ \A i \in 1 .. Len(ls) : ~IsErrorLine(ls[i])
                 /\ \/ \A i \in 1 .. Len(ls) : "TEST_RESULT:" \notin ls[i].has
                    \/ FindTestResults(Text(ls, FALSE)).passed
            /\ ret.val.errors.error_count =
                 Cardinality({i \in 1 .. Len(ls) : IsErrorLine(ls[i])})

\* an error line stands before the last 100 lines, and success is reported
C12_Witness ==
    /\ Idle("analyze_simulation")
    /\ op.recent_only /\ op.readable
    /\ Len(transcript.lines) = 101
    /\ IsErrorLine(transcript.lines[1])
    /\ ret.val.success

\* C13: read_transcript never raises; it returns "" when the file is absent
\* or unreadable, the whole content for lines = None, and for lines = N >= 1
\* the last min(N, total) lines in their order.
C13_LastLinesInOrder ==
    /\ op.name = "read_transcript" => ret.kind = "str"
    /\ Idle("read_transcript") =>
         LET total == Len(transcript.lines)
             found == transcript.exists /\ op.readable
         IN  /\ ~found => ret.val = EmptyText
             /\ found /\ ~op.lines.given =>
                  ret.val = Text(transcript.lines, total > 0)
             /\ found /\ op.lines.given /\ op.lines.val >= 1 =>
                  LET k == Least(op.lines.val, total)
                  IN  /\ Len(ret.val.lines) = k
                      /\ \A i \in 1 .. k :
                            ret.val.lines[i] = transcript.lines[total - k + i]

\* 100 lines are asked of a longer transcript that does not start as it ends
C13_Witness ==
    /\ Idle("read_transcript")
    /\ op.lines = Some(100) /\ op.readable
    /\ Len(transcript.lines) > 100
    /\ transcript.lines[1] # transcript.lines[2]
    /\ Len(ret.val.lines) = 100

\* C14: capture_screenshot raises ValueError for a target outside the six
\* valid ones before any Tcl command, window search or file write; for a valid
\* panel target on a controller that is not connected it raises RuntimeError
\* and sends no command; for 'modelsim' it sends no Tcl command at all.
C14_ScreenshotGuards ==
    Idle("capture_screenshot") =>
        /\ op.target \notin {"modelsim", "wave", "objects", "processes",
                             "transcript", "sim"} =>
             /\ ret.kind = "raise" /\ ret.val = "ValueError"
             /\ calls = <<>> /\ effects = <<>>
        /\ op.target \in {"wave", "objects", "processes", "transcript", "sim"}
               /\ ~(client.present /\ client.connected) =>
             /\ ret.kind = "raise" /\ ret.val = "RuntimeError"
             /\ calls = <<>>
        /\ op.target = "modelsim" => calls = <<>>

\* the whole window is captured by a controller that holds no client
C14_Witness ==
    /\ Idle("capture_screenshot")
    /\ op.target = "modelsim"
    /\ client = NoClient
    /\ ret.kind = "map" /\ ret.val.success
    /\ Len(effects) = 2

\* C15: recompile sends one string per design file, in input order: '../'
\* and the path for a relative path, '../' and the path below project_root
\* for an absolute path inside it, the absolute path itself otherwise, always
\* with '/' for every backslash; the testbench likewise, or "" when none is set.
Slashed(parts) ==
    [i \in 1 .. 2 * Len(parts) - 1 |->
        IF i % 2 = 1 THEN parts[(i + 1) \div 2] ELSE "/"]
InsideProject(f) == f.drive = "C:" /\ Len(f.parts) >= 1 /\ f.parts[1] = "proj"
Normalised(f) ==
    IF f.drive = "" THEN <<"../">> \o Slashed(f.parts)
    ELSE IF InsideProject(f) THEN <<"../">> \o Slashed(Tail(f.parts))
    ELSE <<f.drive, "/">> \o Slashed(f.parts)

C15_PathsNormalised ==
    Idle("recompile") /\ Len(calls) = 1 =>
        LET files == FileArgument(op.design_files, design_files)
            tb    == IF op.testbench_file.given
                     THEN Some(op.testbench_file.val) ELSE testbench_file
            sent  == calls[1].cmd
        IN  /\ Len(sent.design_files) = Len(files)
            /\ \A i \in 1 .. Len(files) :
                  /\ sent.design_files[i] = Normalised(files[i])
                  /\ \A j \in 1 .. Len(sent.design_files[i]) :
                        sent.design_files[i][j] # "\\"
            /\ sent.testbench_file =
                  IF tb.given THEN Normalised(tb.val) ELSE <<>>

\* two files are given, an absolute one outside the project before a relative
\* one, on a controller that has no testbench
C15_Witness ==
    /\ Idle("recompile") /\ Len(calls) = 1
    /\ op.design_files = Some(<<F_out, F_rel>>)
    /\ ~op.testbench_file.given /\ ~testbench_file.given
    /\ calls[1].cmd.design_files =
          << <<"D:", "/", "lib", "/", "b.v">>, <<"../", "hdl", "/", "a.v">> >>
    /\ calls[1].cmd.testbench_file = <<>>

\* C16: shutdown_server on a connected controller sends one shutdown command,
\* returns the client's response and leaves client None, whatever the
\* response says; on a controller that is not connected it sends nothing,
\* returns success False with message 'Not connected' and keeps client.
C16_ShutdownDropsClient ==
    [][ (pc = "idle" /\ op'.name = "shutdown_server")
        => /\ pc' = "idle"
           /\ IF client.present /\ client.connected
              THEN /\ Len(calls') = 1
                   /\ calls'[1].cmd = [name |-> "shutdown_server"]
                   /\ ret' = RetMap(calls'[1].resp)
                   /\ client' = NoClient
              ELSE /\ calls' = <<>>
                   /\ ret' = RetMap([success |-> FALSE,
                                     message |-> "Not connected"])
                   /\ client' = client ]_vars

\* the server answered the shutdown with a failure and the client is gone
C16_Witness ==
    /\ Idle("shutdown_server")
    /\ Len(calls) = 1
    /\ ~calls[1].resp.success
    /\ ret = RetMap(calls[1].resp)
    /\ client = NoClient

\* C17: change_wave_format on a connected controller first sends 'property
\* wave -radix <format> <name>', <name> being what follows the last '/' of
\* signal_path, then 'wave refresh' exactly when the first command succeeded,
\* and returns the first command's response whatever the refresh answers.
AfterLastSlash(s) ==
    LET slashes == {i \in 1 .. Len(s) : s[i] = "/"}
        from == IF slashes = {} THEN 1
                ELSE (CHOOSE i \in slashes : \A j \in slashes : j <= i) + 1
    IN  SubSeq(s, from, Len(s))

C17_RefreshAfterSuccess ==
    Idle("change_wave_format") /\ client.present /\ client.connected =>
        /\ Len(calls) \in {1, 2}
        /\ calls[1].cmd =
              [name |-> "execute_tcl",
               tcl_code |-> <<"property wave -radix ", op.format, " ">>
                                \o AfterLastSlash(op.signal_path)]
        /\ Len(calls) = 2 <=> calls[1].resp.success
        /\ Len(calls) = 2 =>
              calls[2].cmd = [name |-> "execute_tcl",
                              tcl_code |-> <<"wave refresh">>]
        /\ ret = RetMap(calls[1].resp)

\* the format of a hierarchical signal was changed and the refresh failed
C17_Witness ==
    /\ Idle("change_wave_format")
    /\ Len(op.signal_path) > 1
    /\ Len(calls) = 2
    /\ ~calls[2].resp.success
    /\ ret.val.success

\* C18: simulate reports overall_success exactly when vsim exited with status
\* 0 and parse_log reports success; parse_log reports success exactly when
\* the log has no line matching '** Error:' or 'ERROR:' and contains
\* '$finish', 'End time:' or 'PASS'.
ParsedLog ==
    IF op.log.given THEN op.log.val
    ELSE IF transcript.exists THEN transcript.lines ELSE <<>>

C18_OverallSuccess ==
    Idle("simulate") =>
        LET ls == ParsedLog
            clean == \A i \in 1 .. Len(ls) :
                        ls[i].has \cap {"** Error:", "ERROR:"} = {}
            done  == \E i \in 1 .. Len(ls) :
                        ls[i].has \cap {"$finish", "End time:", "PASS"} # {}
        IN  /\ ret.val.log_analysis.success <=> (clean /\ done)
            /\ ret.val.overall_success <=>
                  /\ op.vsim.exited /\ op.vsim.returncode = 0
                  /\ ret.val.log_analysis.success

\* vsim exited with 0 and its log passes, with "error:" in lower case in it
C18_Witness ==
    /\ Idle("simulate")
    /\ op.vsim = Exited(0)
    /\ op.log = Some(<<K_lower, K_pass>>)
    /\ ret.val.overall_success

====
